---- MODULE Spec2Model ----
(***************************************************************************)
(* A model of vector<T, Alloc> (src/vector.h) over an explicit heap.       *)
(*                                                                         *)
(* Two vector objects, A and B, live in one address space.  A block of     *)
(* the heap is a sequence of slots; a slot is Raw (no object lives there)  *)
(* or holds the value of a live element.  Every member function is one     *)
(* action; its body is an operator that threads a machine state m through  *)
(* the allocator calls the source makes, in the source's order.            *)
(*                                                                         *)
(* Element type: the moves of T may throw, so std::move_if_noexcept        *)
(* copies.  A failure is injected by the input "fail": the fail-th         *)
(* fallible call (allocate or construct) of the operation throws.          *)
(***************************************************************************)
EXTENDS Integers, Sequences, FiniteSets, TLC

\* ---- bounds of the model ------------------------------------------------
\* MaxCap: the largest block of a run with one vector; MaxPairCap: of a run
\* with two; MaxLen: the longest list or range a constructor is given.
MaxCap == 4
MaxPairCap == 2
MaxLen == 2
\* MaxCmpLen: the longest vector handed to a comparison operator.
MaxCmpLen == 3

\* ---- constants ----------------------------------------------------------
\* NULL: nullptr.  DefaultValue: T().  Raw: a slot that holds no object.
\* Junk: an indeterminate value.  NoIndex: no index.
\* SizeWrap: size_type is unsigned and wraps; the model wraps at 2^30, which
\* like 2^64 is beyond every size and capacity of a run.
NULL == 0
DefaultValue == 0
Raw == 0 - 1
Junk == 0 - 2
NoIndex == 0 - 1
SizeWrap == 1073741824

Vecs == {"A", "B"}
Values == {0, 1}
Blocks == 1 .. 4
Other(x) == IF x = "A" THEN "B" ELSE "A"

\* heap, vec : the blocks of the free store; the members arr_, sz_, cap_ of A, B
\* last      : the call that has just been made and how it ended
\* pushed    : per vector, the values pushed since it was default-constructed,
\*             as long as nothing but successful push_backs was called on it
\* twin      : one vector has been made a copy of the other, and each has since
\*             been changed by calls on itself only
VARIABLES heap, vec, last, pushed, twin

vars == <<heap, vec, last, pushed, twin>>

FreeBlock == [st |-> "free", slots |-> <<>>]
NoVec == [alive |-> FALSE, arr |-> NULL, sz |-> 0, cap |-> 0]
NoHist == <<Raw>>

\* size_type arithmetic (unsigned, wraps)
SizeSub(a, b) == (a - b + SizeWrap) % SizeWrap

\* F applied to the value of v
Bind(v, F(_)) == CHOOSE r \in {F(w) : w \in {v}} : TRUE

\* ---- the machine state threaded through an operation --------------------
\* heap, vec : the program state
\* ev        : what went wrong at the level of object lifetimes
\* fail      : the fallible calls left before the injected failure
\* exc       : the exception in flight
\* adj       : the block laid out right behind an overflowed block
\* idx, ptr  : a loop's final index, allocate's result
\* first     : the index given to the first construct call
\* ret       : the position returned, as its offset from begin()
MachineOn(h, vc, fail, adj) ==
    [heap |-> h, vec |-> vc, ev |-> {}, fail |-> fail, exc |-> "none",
     adj |-> adj, idx |-> 0, ptr |-> NULL, first |-> NoIndex, ret |-> NoIndex]

Machine(fail, adj) == MachineOn(heap, vec, fail, adj)

\* a program that has not made any object yet
Fresh == MachineOn([c \in Blocks |-> FreeBlock], [v \in Vecs |-> NoVec], 0, NULL)

\* a slot holds the value of a live element: the elements are non-negative
\* numbers, of which a run of the model uses those in Values
IsValue(v) == v >= 0

Thrown(m) == m.exc # "none"

InBlock(m, p, i) ==
    /\ p # NULL
    /\ m.heap[p].st = "live"
    /\ i >= 0
    /\ i < Len(m.heap[p].slots)

\* Where an access to p[i] lands: <<block, index>>, or <<NULL, 0>> when it
\* lands in no block of the model (a null or dangling pointer, a wild index).
\* An access past the end of p lands in the block laid out behind it.
Target(m, p, i) ==
    IF InBlock(m, p, i) THEN <<p, i>>
    ELSE IF /\ p # NULL
            /\ m.heap[p].st = "live"
            /\ m.adj # NULL
            /\ m.adj # p
            /\ InBlock(m, m.adj, i - Len(m.heap[p].slots))
         THEN <<m.adj, i - Len(m.heap[p].slots)>>
         ELSE <<NULL, 0>>

Flag(m, e) == [m EXCEPT !.ev = @ \cup e]

Store(m, t, v) ==
    IF t[1] = NULL THEN m ELSE [m EXCEPT !.heap[t[1]].slots[t[2] + 1] = v]

Load(m, t) == IF t[1] = NULL THEN Junk ELSE m.heap[t[1]].slots[t[2] + 1]

\* alloc_traits::allocate
allocate(m, n) ==
    IF m.fail = 1 THEN [m EXCEPT !.exc = "bad_alloc", !.fail = 0]
    ELSE LET b == CHOOSE c \in Blocks :
                    /\ m.heap[c].st = "free"
                    /\ \A d \in Blocks : m.heap[d].st = "free" => c <= d
         IN  [m EXCEPT !.heap[b] = [st |-> "live", slots |-> [i \in 1 .. n |-> Raw]],
                       !.ptr = b,
                       !.fail = IF @ > 1 THEN @ - 1 ELSE @]

\* alloc_traits::deallocate
deallocate(m, p) ==
    IF p = NULL THEN m
    ELSE IF m.heap[p].st # "live" THEN Flag(m, {"ub"})
    ELSE [m EXCEPT !.heap[p] = [st |-> "released", slots |-> <<>>],
                   !.ev = IF \E i \in 1 .. Len(m.heap[p].slots) : m.heap[p].slots[i] # Raw
                          THEN @ \cup {"leak_elem"} ELSE @]

\* alloc_traits::construct(alloc_, p + i, v)
construct(m, p, i, v) ==
    IF m.fail = 1
    THEN [m EXCEPT !.exc = "ctor", !.fail = 0,
                   !.first = IF @ = NoIndex THEN i ELSE @]
    ELSE LET t == Target(m, p, i)
             m1 == [m EXCEPT !.fail = IF @ > 1 THEN @ - 1 ELSE @,
                             !.first = IF @ = NoIndex THEN i ELSE @]
             w == IF IsValue(v) THEN v ELSE Junk
         IN  Store(Flag(m1, (IF ~InBlock(m, p, i) THEN {"ub"} ELSE {})
                            \cup (IF Load(m, t) # Raw /\ t[1] # NULL
                                  THEN {"construct_live"} ELSE {})),
                   t, w)

\* alloc_traits::destroy(alloc_, p + i)
destroy(m, p, i) ==
    LET t == Target(m, p, i)
    IN  Store(Flag(m, (IF ~InBlock(m, p, i) THEN {"ub"} ELSE {})
                      \cup (IF Load(m, t) = Raw THEN {"destroy_raw"} ELSE {})),
              t, Raw)

\* The value read through src[i]; a slot with no live element, or no slot at
\* all, yields an indeterminate value.
ReadVal(m, src, i) ==
    LET v == Load(m, Target(m, src, i)) IN IF IsValue(v) THEN v ELSE Junk

\* alloc_traits::construct(alloc_, dst + di, std::move_if_noexcept(src[si]))
constructFrom(m, dst, di, src, si) ==
    Bind(construct(m, dst, di, ReadVal(m, src, si)), LAMBDA m1 :
        IF Thrown(m1) THEN m1
        ELSE Flag(m1, IF ~InBlock(m, src, si) \/ ReadVal(m, src, si) = Junk
                      THEN {"ub"} ELSE {}))

\* ---- the loops of the source --------------------------------------------
RECURSIVE CopyLoop(_, _, _, _, _)
\* for (; index < n; ++index) construct(dst + index, move_if_noexcept(src[index]))
CopyLoop(m, dst, src, i, n) ==
    IF i >= n THEN [m EXCEPT !.idx = i]
    ELSE Bind(constructFrom(m, dst, i, src, i), LAMBDA m1 :
         IF Thrown(m1) THEN [m1 EXCEPT !.idx = i]
         ELSE CopyLoop(m1, dst, src, i + 1, n))

RECURSIVE FillLoop(_, _, _, _, _)
\* for (; index < n; ++index) construct(dst + index, value)
FillLoop(m, dst, i, n, v) ==
    IF i >= n THEN [m EXCEPT !.idx = i]
    ELSE Bind(construct(m, dst, i, v), LAMBDA m1 :
         IF Thrown(m1) THEN [m1 EXCEPT !.idx = i]
         ELSE FillLoop(m1, dst, i + 1, n, v))

RECURSIVE ListLoop(_, _, _, _)
\* for (value : init_list) { construct(dst + index, value); ++index; }
ListLoop(m, dst, i, seq) ==
    IF i >= Len(seq) THEN [m EXCEPT !.idx = i]
    ELSE Bind(construct(m, dst, i, seq[i + 1]), LAMBDA m1 :
         IF Thrown(m1) THEN [m1 EXCEPT !.idx = i]
         ELSE ListLoop(m1, dst, i + 1, seq))

RECURSIVE DestroyRange(_, _, _, _)
\* for (i = from; i < to; ++i) destroy(p + i)
DestroyRange(m, p, i, n) ==
    IF i >= n THEN m
    ELSE Bind(destroy(m, p, i), LAMBDA m1 : DestroyRange(m1, p, i + 1, n))

RECURSIVE ShiftRight(_, _, _, _, _)
\* for (i = sz_; i > index; --i) {
\*     construct(p + i + count - 1, move_if_noexcept(p[i - 1]));  destroy(p + i - 1); }
ShiftRight(m, p, i, index, count) ==
    IF i <= index THEN m
    ELSE Bind(constructFrom(m, p, i + count - 1, p, i - 1), LAMBDA m1 :
         IF Thrown(m1) THEN m1
         ELSE Bind(destroy(m1, p, i - 1), LAMBDA m2 :
              ShiftRight(m2, p, i - 1, index, count)))

\* An index no block of the model reaches: the loop that gets there has left
\* the address space and the run has faulted.
Wild(i) == i > 2 * MaxCap + 2

RECURSIVE EraseShift(_, _, _, _)
\* for (i = index; i < sz_ - 1; ++i) {
\*     construct(p + i, move_if_noexcept(p[i + 1]));  destroy(p + i + 1); }
EraseShift(m, p, i, bound) ==
    IF i >= bound THEN m
    ELSE IF Wild(i) THEN Flag(m, {"ub", "fault"})
    ELSE Bind(constructFrom(m, p, i, p, i + 1), LAMBDA m1 :
         IF Thrown(m1) THEN m1
         ELSE Bind(destroy(m1, p, i + 1), LAMBDA m2 :
              EraseShift(m2, p, i + 1, bound)))

RECURSIVE EraseRangeShift(_, _, _, _, _)
\* for (i = index_last; i < sz_; ++i, ++index_first) {
\*     construct(p + index_first, move_if_noexcept(p[i]));  destroy(p + i); }
EraseRangeShift(m, p, i, n, first) ==
    IF i >= n THEN [m EXCEPT !.idx = first]
    ELSE Bind(constructFrom(m, p, first, p, i), LAMBDA m1 :
         IF Thrown(m1) THEN [m1 EXCEPT !.idx = first]
         ELSE Bind(destroy(m1, p, i), LAMBDA m2 :
              EraseRangeShift(m2, p, i + 1, n, first + 1)))

\* ---- capacity -----------------------------------------------------------
\* A catch block that destroys what was built and forgets the block.
RollbackKeepsBlock(m, newarr) == DestroyRange(m, newarr, 0, m.idx)

\* catch (...) { destroy newarr[0, index); deallocate(newarr); throw; }
Rollback(m, newarr) ==
    Bind(DestroyRange(m, newarr, 0, m.idx), LAMBDA m1 : deallocate(m1, newarr))

\* destroy arr_[0, sz_); deallocate(arr_)
ReleaseOld(m, x) ==
    Bind(DestroyRange(m, m.vec[x].arr, 0, m.vec[x].sz), LAMBDA m1 :
         deallocate(m1, m.vec[x].arr))

reserve(m, x, newcap) ==
    Bind(allocate(m, newcap), LAMBDA m1 :
    IF Thrown(m1) THEN m1
    ELSE Bind(CopyLoop(m1, m1.ptr, m.vec[x].arr, 0, m.vec[x].sz), LAMBDA m2 :
         IF Thrown(m2) THEN Rollback(m2, m1.ptr)
         ELSE Bind(ReleaseOld(m2, x), LAMBDA m3 :
              [m3 EXCEPT !.vec[x].arr = m1.ptr, !.vec[x].cap = newcap])))

shrink_to_fit(m, x) ==
    IF m.vec[x].sz < m.vec[x].cap
    THEN Bind(allocate(m, m.vec[x].sz), LAMBDA m1 :
         IF Thrown(m1) THEN m1
         ELSE Bind(CopyLoop(m1, m1.ptr, m.vec[x].arr, 0, m.vec[x].sz), LAMBDA m2 :
              IF Thrown(m2) THEN Rollback(m2, m1.ptr)
              ELSE Bind(ReleaseOld(m2, x), LAMBDA m3 :
                   [m3 EXCEPT !.vec[x].arr = m1.ptr, !.vec[x].cap = m.vec[x].sz])))
    ELSE m

clear(m, x) ==
    Bind(DestroyRange(m, m.vec[x].arr, 0, m.vec[x].sz), LAMBDA m1 :
         [m1 EXCEPT !.vec[x].sz = 0])

\* ---- end insertion ------------------------------------------------------
\* A growth policy that makes room for just the one element.
GrowByOne(cap) == cap + 1

\* size_type newcap = cap_ > 0 ? cap_ * 2 : 1
GrowCap(cap) == IF cap > 0 THEN cap * 2 ELSE 1

\* A transfer loop that stops one element short.
TransferAllButLast(m, x, newarr, v) ==
    Bind(construct(m, newarr, m.vec[x].sz, v), LAMBDA m1 :
         IF Thrown(m1) THEN [m1 EXCEPT !.idx = 0]
         ELSE CopyLoop(m1, newarr, m.vec[x].arr, 0,
                       IF m.vec[x].sz = 0 THEN 0 ELSE m.vec[x].sz - 1))

\* The existing elements are transferred first, the new element comes last.
TransferThenAppend(m, x, newarr, v) ==
    Bind(CopyLoop(m, newarr, m.vec[x].arr, 0, m.vec[x].sz), LAMBDA m1 :
         IF Thrown(m1) THEN m1
         ELSE Bind(construct(m1, newarr, m.vec[x].sz, v), LAMBDA m2 :
              [m2 EXCEPT !.idx = m.vec[x].sz]))

\* the new element goes to newarr + sz_, and it goes there first; then the
\* existing elements are transferred
AppendThenTransfer(m, x, newarr, v) ==
    Bind(construct(m, newarr, m.vec[x].sz, v), LAMBDA m1 :
         IF Thrown(m1) THEN [m1 EXCEPT !.idx = 0]
         ELSE CopyLoop(m1, newarr, m.vec[x].arr, 0, m.vec[x].sz))

emplace_back(m, x, v) ==
    IF m.vec[x].sz = m.vec[x].cap
    THEN Bind(allocate(m, GrowCap(m.vec[x].cap)), LAMBDA m1 :
         IF Thrown(m1) THEN m1
         ELSE Bind(AppendThenTransfer(m1, x, m1.ptr, v), LAMBDA m2 :
              IF Thrown(m2) THEN Rollback(m2, m1.ptr)
              ELSE Bind(ReleaseOld(m2, x), LAMBDA m3 :
                   [m3 EXCEPT !.vec[x].arr = m1.ptr,
                              !.vec[x].cap = GrowCap(m.vec[x].cap),
                              !.vec[x].sz = m.vec[x].sz + 1])))
    ELSE Bind(construct(m, m.vec[x].arr, m.vec[x].sz, v), LAMBDA m1 :
         IF Thrown(m1) THEN m1
         ELSE [m1 EXCEPT !.vec[x].sz = m.vec[x].sz + 1])

push_back(m, x, v) == emplace_back(m, x, v)

\* A pop_back without the test of sz_.
PopBackUnchecked(m, x) ==
    destroy([m EXCEPT !.vec[x].sz = SizeSub(m.vec[x].sz, 1)],
            m.vec[x].arr, SizeSub(m.vec[x].sz, 1))

pop_back(m, x) ==
    IF m.vec[x].sz > 0
    THEN destroy([m EXCEPT !.vec[x].sz = m.vec[x].sz - 1], m.vec[x].arr, m.vec[x].sz - 1)
    ELSE m

\* ---- insert, erase ------------------------------------------------------
\* pos is given as its offset k from begin(); "pos < begin() || pos > end()"
OutOfRange(s, k) == k < 0 \/ k > s.sz

\* catch (...) { for (i = index + 1; i < sz_; ++i) destroy(arr_ + i); throw; }
InsertCatch(m, x, index) ==
    DestroyRange(m, m.vec[x].arr, index + 1, m.vec[x].sz)

\* A shift that leaves the element at index where it is.
ShiftOneShort(m, x, index, v) ==
    Bind(ShiftRight(m, m.vec[x].arr, m.vec[x].sz, index + 1, 1), LAMBDA m1 :
         IF Thrown(m1) THEN m1
         ELSE Bind(construct(m1, m.vec[x].arr, index, v), LAMBDA m2 :
              IF Thrown(m2) THEN m2
              ELSE [m2 EXCEPT !.vec[x].sz = m.vec[x].sz + 1]))

\* try { shift the tail right by one; construct(arr_ + index, value); ++sz_; }
ShiftAndPut(m, x, index, v) ==
    Bind(ShiftRight(m, m.vec[x].arr, m.vec[x].sz, index, 1), LAMBDA m1 :
         IF Thrown(m1) THEN m1
         ELSE Bind(construct(m1, m.vec[x].arr, index, v), LAMBDA m2 :
              IF Thrown(m2) THEN m2
              ELSE [m2 EXCEPT !.vec[x].sz = m.vec[x].sz + 1]))

insert_impl(m, x, k, v) ==
    IF OutOfRange(m.vec[x], k) THEN [m EXCEPT !.exc = "out_of_range"]
    ELSE IF k = m.vec[x].sz
    THEN Bind(push_back(m, x, v), LAMBDA m1 :
         IF Thrown(m1) THEN m1 ELSE [m1 EXCEPT !.ret = m1.vec[x].sz - 1])
    ELSE Bind(IF m.vec[x].sz = m.vec[x].cap
              THEN reserve(m, x, GrowCap(m.vec[x].cap)) ELSE m, LAMBDA m1 :
         IF Thrown(m1) THEN m1
         ELSE Bind(ShiftAndPut(m1, x, k, v), LAMBDA m2 :
              IF Thrown(m2) THEN InsertCatch(m2, x, k) ELSE [m2 EXCEPT !.ret = k]))

insert(m, x, k, v) == insert_impl(m, x, k, v)

erase(m, x, k) ==
    IF OutOfRange(m.vec[x], k) THEN [m EXCEPT !.exc = "out_of_range"]
    ELSE Bind(destroy(m, m.vec[x].arr, k), LAMBDA m1 :
         Bind(EraseShift(m1, m.vec[x].arr, k, SizeSub(m.vec[x].sz, 1)), LAMBDA m2 :
              IF Thrown(m2) THEN m2
              ELSE [m2 EXCEPT !.vec[x].sz = SizeSub(m.vec[x].sz, 1), !.ret = k]))

\* first, last are given as their offsets f, l from begin()
erase_range(m, x, f, l) ==
    IF f < 0 \/ l > m.vec[x].sz \/ f > m.vec[x].sz
    THEN [m EXCEPT !.exc = "out_of_range"]
    ELSE Bind(DestroyRange(m, m.vec[x].arr, f, l), LAMBDA m1 :
         Bind(EraseRangeShift(m1, m.vec[x].arr, l, m.vec[x].sz, f), LAMBDA m2 :
              IF Thrown(m2) THEN m2
              ELSE [m2 EXCEPT !.vec[x].sz = SizeSub(m.vec[x].sz, SizeSub(l, f)),
                              !.ret = m2.idx]))

\* ---- insert of several elements ------------------------------------------
\* std::max
Max(a, b) == IF a >= b THEN a ELSE b

RECURSIVE PutLoop(_, _, _, _, _)
\* for (i = 0; i < count; ++i) construct(arr_ + index + i, *first++)
PutLoop(m, p, index, i, seq) ==
    IF i >= Len(seq) THEN m
    ELSE Bind(construct(m, p, index + i, seq[i + 1]), LAMBDA m1 :
         IF Thrown(m1) THEN m1 ELSE PutLoop(m1, p, index, i + 1, seq))

\* catch (...) { for (i = index + count; i < sz_; ++i) destroy(arr_ + i); throw; }
InsertManyCatch(m, x, index, count) ==
    DestroyRange(m, m.vec[x].arr, index + count, m.vec[x].sz)

\* try { shift the tail right by count; construct the new elements }
ShiftAndPutMany(m, x, index, seq) ==
    Bind(ShiftRight(m, m.vec[x].arr, m.vec[x].sz, index, Len(seq)), LAMBDA m1 :
         IF Thrown(m1) THEN m1 ELSE PutLoop(m1, m.vec[x].arr, index, 0, seq))

\* The body the forms of insert share, from "if (sz_ + count > cap_)" on; seq
\* is what *first++ (or value) yields, count = Len(seq) > 0.
InsertMany(m, x, index, seq) ==
    Bind(IF m.vec[x].sz + Len(seq) > m.vec[x].cap
         THEN reserve(m, x, Max(m.vec[x].cap * 2, m.vec[x].sz + Len(seq)))
         ELSE m, LAMBDA m1 :
    IF Thrown(m1) THEN m1
    ELSE Bind(ShiftAndPutMany(m1, x, index, seq), LAMBDA m2 :
         IF Thrown(m2) THEN InsertManyCatch(m2, x, index, Len(seq))
         ELSE [m2 EXCEPT !.vec[x].sz = @ + Len(seq), !.ret = index]))

\* insert(pos, count, value): the count is tested before the position
insert_count(m, x, k, count, v) ==
    IF count = 0 THEN [m EXCEPT !.ret = k]
    ELSE IF OutOfRange(m.vec[x], k) THEN [m EXCEPT !.exc = "out_of_range"]
    ELSE InsertMany(m, x, k, [i \in 1 .. count |-> v])

\* insert(pos, ilist)
insert_list(m, x, k, seq) ==
    IF OutOfRange(m.vec[x], k) THEN [m EXCEPT !.exc = "out_of_range"]
    ELSE IF Len(seq) = 0 THEN [m EXCEPT !.ret = k]
    ELSE InsertMany(m, x, k, seq)

RECURSIVE TempLoop(_, _, _, _, _, _)
\* vector(first, last): for (; first != last; ++first, ++index) construct(arr_ + index, *first)
TempLoop(m, dst, i, n, src, a) ==
    IF i >= n THEN [m EXCEPT !.idx = i]
    ELSE Bind(constructFrom(m, dst, i, src, a + i), LAMBDA m1 :
         IF Thrown(m1) THEN [m1 EXCEPT !.idx = i]
         ELSE TempLoop(m1, dst, i + 1, n, src, a))

\* vector<T> temp(first, last) over the elements [a, b) of the block src; ptr
\* is temp's block
Temp(m, src, a, b) ==
    Bind(allocate(m, b - a), LAMBDA m1 :
    IF Thrown(m1) THEN m1
    ELSE Bind(TempLoop(m1, m1.ptr, 0, b - a, src, a), LAMBDA m2 :
         IF Thrown(m2) THEN Rollback(m2, m1.ptr)
         ELSE [m2 EXCEPT !.ptr = m1.ptr]))

\* what *first++ yields over temp.begin() .. temp.end()
TempElems(m, t, n) == [i \in 1 .. n |-> ReadVal(m, t, i - 1)]

\* ~temp: on the return and on the way of an exception out of the call
TempRelease(m, t, n) ==
    Bind(DestroyRange(m, t, 0, n), LAMBDA m1 : deallocate(m1, t))

\* A range insert that reads the range in place while it shifts.
InsertInPlace(m, x, k, a, b) ==
    Bind(IF m.vec[x].sz + (b - a) > m.vec[x].cap
         THEN reserve(m, x, Max(m.vec[x].cap * 2, m.vec[x].sz + (b - a)))
         ELSE m, LAMBDA m1 :
    IF Thrown(m1) THEN m1
    ELSE Bind(ShiftRight(m1, m1.vec[x].arr, m1.vec[x].sz, k, b - a), LAMBDA m2 :
         IF Thrown(m2) THEN InsertManyCatch(m2, x, k, b - a)
         ELSE Bind(TempLoop(m2, m2.vec[x].arr, k, k + (b - a), m.vec[x].arr, a - k),
                   LAMBDA m3 :
              IF Thrown(m3) THEN InsertManyCatch(m3, x, k, b - a)
              ELSE [m3 EXCEPT !.vec[x].sz = @ + (b - a), !.ret = k])))

\* the branch of insert_dispatch taken when [first, last) lies in the vector
InsertFromTemp(m, x, k, a, b) ==
    Bind(Temp(m, m.vec[x].arr, a, b), LAMBDA m1 :
    IF Thrown(m1) THEN m1
    ELSE Bind(InsertMany(m1, x, k, TempElems(m1, m1.ptr, b - a)), LAMBDA m2 :
         TempRelease(m2, m1.ptr, b - a)))

\* insert(pos, first, last) with [first, last) a range of another container,
\* given as the sequence it denotes
insert_dispatch(m, x, k, seq) ==
    IF OutOfRange(m.vec[x], k) THEN [m EXCEPT !.exc = "out_of_range"]
    ELSE IF Len(seq) = 0 THEN [m EXCEPT !.ret = k]
    ELSE InsertMany(m, x, k, seq)

\* insert(pos, first, last) with first = begin() + a, last = begin() + b,
\* 0 <= a <= b <= size(): first >= begin() && first < end() && last > begin()
\* && last <= end() holds as soon as count # 0
insert_dispatch_self(m, x, k, a, b) ==
    IF OutOfRange(m.vec[x], k) THEN [m EXCEPT !.exc = "out_of_range"]
    ELSE IF b - a = 0 THEN [m EXCEPT !.ret = k]
    ELSE InsertFromTemp(m, x, k, a, b)

\* ---- resize, assign -----------------------------------------------------
\* A resize whose catch block destroys nothing.
ResizeNoRollback(m, x, count, v) ==
    IF m.vec[x].sz > count
    THEN Bind(DestroyRange(m, m.vec[x].arr, count, m.vec[x].sz), LAMBDA m1 :
         [m1 EXCEPT !.vec[x].sz = count])
    ELSE IF m.vec[x].sz < count
    THEN Bind(IF count > m.vec[x].cap THEN reserve(m, x, count) ELSE m, LAMBDA m1 :
         IF Thrown(m1) THEN m1
         ELSE Bind(FillLoop(m1, m1.vec[x].arr, m.vec[x].sz, count, v), LAMBDA m2 :
              IF Thrown(m2) THEN m2
              ELSE [m2 EXCEPT !.vec[x].sz = count]))
    ELSE [m EXCEPT !.vec[x].sz = count]

resize_value(m, x, count, v) ==
    IF m.vec[x].sz > count
    THEN Bind(DestroyRange(m, m.vec[x].arr, count, m.vec[x].sz), LAMBDA m1 :
         [m1 EXCEPT !.vec[x].sz = count])
    ELSE IF m.vec[x].sz < count
    THEN Bind(IF count > m.vec[x].cap THEN reserve(m, x, count) ELSE m, LAMBDA m1 :
         IF Thrown(m1) THEN m1
         ELSE Bind(FillLoop(m1, m1.vec[x].arr, m.vec[x].sz, count, v), LAMBDA m2 :
              IF Thrown(m2) THEN DestroyRange(m2, m1.vec[x].arr, m.vec[x].sz, m2.idx)
              ELSE [m2 EXCEPT !.vec[x].sz = count]))
    ELSE [m EXCEPT !.vec[x].sz = count]

resize(m, x, count) == resize_value(m, x, count, DefaultValue)

\* if (arr_ != nullptr) { clear(); deallocate(arr_); }
AssignRelease(m, x) ==
    IF m.vec[x].arr # NULL
    THEN Bind(clear(m, x), LAMBDA m1 : deallocate(m1, m.vec[x].arr))
    ELSE m

\* An assign that always moves to a block of exactly count slots.
AssignExact(m, x, count, v) ==
    IF count <= 0
    THEN IF m.vec[x].arr # NULL THEN clear(m, x) ELSE m
    ELSE Bind(allocate(m, count), LAMBDA m1 :
         IF Thrown(m1) THEN m1
         ELSE Bind(FillLoop(m1, m1.ptr, 0, count, v), LAMBDA m2 :
              IF Thrown(m2) THEN deallocate(m2, m1.ptr)
              ELSE Bind(AssignRelease(m2, x), LAMBDA m3 :
                   [m3 EXCEPT !.vec[x].arr = m1.ptr,
                              !.vec[x].cap = count,
                              !.vec[x].sz = count])))

assign(m, x, count, v) ==
    IF count <= 0
    THEN IF m.vec[x].arr # NULL THEN clear(m, x) ELSE m
    ELSE IF count > m.vec[x].cap
    THEN Bind(allocate(m, count), LAMBDA m1 :
         IF Thrown(m1) THEN m1
         ELSE Bind(FillLoop(m1, m1.ptr, 0, count, v), LAMBDA m2 :
              IF Thrown(m2) THEN deallocate(m2, m1.ptr)
              ELSE Bind(AssignRelease(m2, x), LAMBDA m3 :
                   [m3 EXCEPT !.vec[x].arr = m1.ptr,
                              !.vec[x].cap = count,
                              !.vec[x].sz = count])))
    ELSE Bind(clear(m, x), LAMBDA m1 :
         Bind(FillLoop(m1, m.vec[x].arr, 0, count, v), LAMBDA m2 :
              IF Thrown(m2) THEN DestroyRange(m2, m.vec[x].arr, 0, m2.idx)
              ELSE [m2 EXCEPT !.vec[x].sz = count]))

\* ---- constructors, destructor -------------------------------------------
\* A constructor that throws leaves no object behind.
NoObject(m, x) == [m EXCEPT !.vec[x] = NoVec]

Object(arr, sz, cap) == [alive |-> TRUE, arr |-> arr, sz |-> sz, cap |-> cap]

vector_default(m, x) == [m EXCEPT !.vec[x] = Object(NULL, 0, 0)]

vector_fill(m, x, n, v) ==
    Bind(allocate(m, n), LAMBDA m1 :
    IF Thrown(m1) THEN NoObject(m1, x)
    ELSE Bind(FillLoop(m1, m1.ptr, 0, n, v), LAMBDA m2 :
         IF Thrown(m2) THEN NoObject(Rollback(m2, m1.ptr), x)
         ELSE [m2 EXCEPT !.vec[x] = Object(m1.ptr, n, n)]))

vector_size(m, x, n) == vector_fill(m, x, n, DefaultValue)

vector_list(m, x, seq) ==
    Bind(allocate(m, Len(seq)), LAMBDA m1 :
    IF Thrown(m1) THEN NoObject(m1, x)
    ELSE Bind(ListLoop(m1, m1.ptr, 0, seq), LAMBDA m2 :
         IF Thrown(m2) THEN NoObject(Rollback(m2, m1.ptr), x)
         ELSE [m2 EXCEPT !.vec[x] = Object(m1.ptr, Len(seq), Len(seq))]))

\* A range constructor that leaves sz_ as the member initializer set it.
RangeWithoutSize(m, x, seq) ==
    Bind(allocate(m, Len(seq)), LAMBDA m1 :
    IF Thrown(m1) THEN NoObject(m1, x)
    ELSE Bind(ListLoop(m1, m1.ptr, 0, seq), LAMBDA m2 :
         IF Thrown(m2) THEN NoObject(Rollback(m2, m1.ptr), x)
         ELSE [m2 EXCEPT !.vec[x] = Object(m1.ptr, 0, Len(seq))]))

\* the range [first, last) is given as the sequence it denotes; sz_ = index
vector_range(m, x, seq) ==
    Bind(allocate(m, Len(seq)), LAMBDA m1 :
    IF Thrown(m1) THEN NoObject(m1, x)
    ELSE Bind(ListLoop(m1, m1.ptr, 0, seq), LAMBDA m2 :
         IF Thrown(m2) THEN NoObject(Rollback(m2, m1.ptr), x)
         ELSE [m2 EXCEPT !.vec[x] = Object(m1.ptr, m2.idx, Len(seq))]))

\* A copy that copies the members and shares the block.
vector_copy_shallow(m, x, other) ==
    [m EXCEPT !.vec[x] = Object(m.vec[other].arr, m.vec[other].sz, m.vec[other].cap)]

\* A copy that asks for as many slots as the source has elements.
vector_copy_fit(m, x, other) ==
    Bind(allocate(m, m.vec[other].sz), LAMBDA m1 :
    IF Thrown(m1) THEN NoObject(m1, x)
    ELSE Bind(CopyLoop(m1, m1.ptr, m.vec[other].arr, 0, m.vec[other].sz), LAMBDA m2 :
         IF Thrown(m2) THEN NoObject(Rollback(m2, m1.ptr), x)
         ELSE [m2 EXCEPT !.vec[x] = Object(m1.ptr, m.vec[other].sz, m.vec[other].sz)]))

vector_copy(m, x, other) ==
    Bind(allocate(m, m.vec[other].cap), LAMBDA m1 :
    IF Thrown(m1) THEN NoObject(m1, x)
    ELSE Bind(CopyLoop(m1, m1.ptr, m.vec[other].arr, 0, m.vec[other].sz), LAMBDA m2 :
         IF Thrown(m2) THEN NoObject(Rollback(m2, m1.ptr), x)
         ELSE [m2 EXCEPT !.vec[x] = Object(m1.ptr, m.vec[other].sz, m.vec[other].cap)]))

\* arr_ is read before it is ever written: "wild" says that the indeterminate
\* pointer it holds is not null, and what it points to is then released.
vector_move(m, x, other, wild) ==
    [m EXCEPT !.ev = IF wild THEN @ \cup {"ub"} ELSE @,
              !.vec[x] = Object(m.vec[other].arr, m.vec[other].sz, m.vec[other].cap),
              !.vec[other].arr = NULL,
              !.vec[other].sz = 0,
              !.vec[other].cap = 0]

destructor(m, x) ==
    Bind(clear(m, x), LAMBDA m1 :
         NoObject(IF m.vec[x].arr # NULL THEN deallocate(m1, m.vec[x].arr) ELSE m1, x))

\* ---- assignment, swap ---------------------------------------------------
copy_assign(m, x, other) ==
    IF x = other THEN m
    ELSE Bind(allocate(m, m.vec[other].cap), LAMBDA m1 :
         IF Thrown(m1) THEN m1
         ELSE Bind(CopyLoop(m1, m1.ptr, m.vec[other].arr, 0, m.vec[other].sz), LAMBDA m2 :
              IF Thrown(m2) THEN Rollback(m2, m1.ptr)
              ELSE Bind(ReleaseOld(m2, x), LAMBDA m3 :
                   [m3 EXCEPT !.vec[x].arr = m1.ptr,
                              !.vec[x].sz = m.vec[other].sz,
                              !.vec[x].cap = m.vec[other].cap])))

\* A move assignment that leaves the block with the source as well.
MoveAssignSharing(m, x, other) ==
    IF x = other THEN m
    ELSE Bind(IF m.vec[x].arr # NULL THEN deallocate(m, m.vec[x].arr) ELSE m, LAMBDA m1 :
         [m1 EXCEPT !.vec[x].arr = m.vec[other].arr,
                    !.vec[x].sz = m.vec[other].sz,
                    !.vec[x].cap = m.vec[other].cap])

\* A move assignment that resets the capacity of the source as well.
MoveAssignResetting(m, x, other) ==
    IF x = other THEN m
    ELSE Bind(IF m.vec[x].arr # NULL THEN deallocate(m, m.vec[x].arr) ELSE m, LAMBDA m1 :
         [m1 EXCEPT !.vec[x].arr = m.vec[other].arr,
                    !.vec[x].sz = m.vec[other].sz,
                    !.vec[x].cap = m.vec[other].cap,
                    !.vec[other].arr = NULL,
                    !.vec[other].sz = 0,
                    !.vec[other].cap = 0])

move_assign(m, x, other) ==
    IF x = other THEN m
    ELSE Bind(IF m.vec[x].arr # NULL THEN deallocate(m, m.vec[x].arr) ELSE m, LAMBDA m1 :
         [m1 EXCEPT !.vec[x].arr = m.vec[other].arr,
                    !.vec[x].sz = m.vec[other].sz,
                    !.vec[x].cap = m.vec[other].cap,
                    !.vec[other].arr = NULL,
                    !.vec[other].sz = 0])

swap(m, x, other) ==
    [m EXCEPT !.vec[x].sz = m.vec[other].sz,
              !.vec[x].cap = m.vec[other].cap,
              !.vec[x].arr = m.vec[other].arr,
              !.vec[other].sz = m.vec[x].sz,
              !.vec[other].cap = m.vec[x].cap,
              !.vec[other].arr = m.vec[x].arr]

\* ---- element access -----------------------------------------------------
\* The calls of this section read the vector with members s in the memory h
\* and write nothing.  res: "ok" or the exception thrown; val: the element the
\* returned reference denotes.

\* An at that tests the index against the capacity.
AtWithinCapacity(h, s, i) ==
    IF i >= s.cap THEN [res |-> "out_of_range", val |-> Raw]
    ELSE [res |-> "ok", val |-> ReadVal(MachineOn(h, <<>>, 0, NULL), s.arr, i)]

\* if (index >= sz_) throw std::out_of_range(...); return arr_[index];
at(h, s, i) ==
    IF i >= s.sz THEN [res |-> "out_of_range", val |-> Raw]
    ELSE [res |-> "ok", val |-> ReadVal(MachineOn(h, <<>>, 0, NULL), s.arr, i)]

\* if (arr_ == nullptr) return true; return false;
empty(s) == s.arr = NULL

\* begin() and end(): positions, as <<block, offset>>
begin(s) == <<s.arr, 0>>

end(s) == <<s.arr, s.sz>>

\* last - first for two positions of one block
distance(first, stop) == stop[2] - first[2]

RECURSIVE Walk(_, _, _)
\* for (it = first; it != stop; ++it) visit *it
Walk(h, it, stop) ==
    IF it = stop THEN <<>>
    ELSE <<ReadVal(MachineOn(h, <<>>, 0, NULL), it[1], it[2])>>
         \o Walk(h, <<it[1], it[2] + 1>>, stop)

\* what a loop from begin() to end() visits
Traversal(h, s) == Walk(h, begin(s), end(s))

\* ---- from an operation's result to the next state -----------------------
\* Addresses are opaque: after every operation the blocks are renamed so that
\* A's block is 1 and B's block is 2.  A block that no vector holds any more
\* and was never released is lost ("leak_block").
Leaked(m) ==
    \E c \in Blocks :
        /\ m.heap[c].st = "live"
        /\ \A v \in Vecs : m.vec[v].arr # c

NormalHeap(m) ==
    LET a == m.vec["A"].arr
        b == m.vec["B"].arr
    IN  [c \in Blocks |->
            IF c = 1 /\ a # NULL THEN m.heap[a]
            ELSE IF c = 2 /\ b # NULL /\ b # a THEN m.heap[b]
            ELSE FreeBlock]

NormalVec(m) ==
    LET a == m.vec["A"].arr
        b == m.vec["B"].arr
    IN  [m.vec EXCEPT !["A"].arr = IF a = NULL THEN NULL ELSE 1,
                      !["B"].arr = IF b = NULL THEN NULL ELSE IF b = a THEN 1 ELSE 2]

\* The representation of x is sound: slots [0, sz) hold live elements, slots
\* [sz, cap) are raw, and cap is the size of the block.  A null block holds
\* no element.
Sound(h, s) ==
    IF s.arr = NULL THEN s.sz = 0
    ELSE /\ h[s.arr].st = "live"
         /\ Len(h[s.arr].slots) = s.cap
         /\ s.sz <= s.cap
         /\ \A i \in 1 .. s.cap : IsValue(h[s.arr].slots[i]) <=> (i <= s.sz)

\* The run is followed no further once an operation has run into undefined
\* behaviour, or has left a vector whose representation is not sound: what
\* such a vector does next is garbage in, garbage out.
Running ==
    /\ "ub" \notin last.ev
    /\ \A x \in Vecs : vec[x].alive => Sound(heap, vec[x])

Idle ==
    [op |-> "-", at |-> <<>>, who |-> "-", arg |-> "-", mut |-> {}, res |-> "ok",
     ret |-> NoIndex, val |-> Raw, ev |-> {}, k |-> 0, first |-> NoIndex]

Outcomes(m) ==
    IF "fault" \in m.ev THEN {"crash"}
    ELSE IF "ub" \in m.ev THEN {"miss", "hit", "own", "crash"}
    ELSE {"miss"}

Copies == {"vector(const&)", "operator=(const&)"}

\* One call of operation Op on vector x.  args: the positions, counts and values
\* passed to it; arg: the vector passed to it ("-" if none); mut: the vectors
\* it may modify; hist: what a successful call makes of the record of x's
\* push_backs.
\*
\* A call that runs into undefined behaviour has these outcomes: the stray
\* accesses land in no block ("miss"), they land in the block laid out right
\* behind, which is the other vector's ("hit") or x's own ("own"), or the run
\* faults ("crash").  A loop that has run out of the address space has the one
\* outcome that the run faults.
Result(m, o, name, args, x, arg, mut, fail, hist) ==
    LET res == IF o = "crash" THEN "crash" ELSE IF Thrown(m) THEN m.exc ELSE "ok"
    IN  [heap |-> IF o = "crash" THEN heap ELSE NormalHeap(m),
         vec |-> IF o = "crash" THEN vec ELSE NormalVec(m),
         last |-> [op |-> name, at |-> args, who |-> x, arg |-> arg, mut |-> mut,
                   res |-> res, ret |-> IF res = "ok" THEN m.ret ELSE NoIndex,
                   val |-> Raw,
                   ev |-> m.ev \cup (IF Leaked(m) THEN {"leak_block"} ELSE {}),
                   k |-> IF Thrown(m) THEN fail ELSE 0,
                   first |-> m.first],
         twin |-> IF res = "ok" /\ name \in Copies /\ arg = Other(x) THEN TRUE
                  ELSE IF name = "~vector" \/ mut = Vecs THEN FALSE
                  ELSE twin,
         pushed |-> [v \in Vecs |->
                       IF v \notin mut THEN pushed[v]
                       ELSE IF v = x /\ res = "ok" THEN hist
                       ELSE NoHist]]

Step(Op(_), name, args, x, arg, mut, fail, hist) ==
    \E o \in Outcomes(Op(Machine(fail, NULL))) :
        \E r \in {Bind(Op(Machine(fail, IF o = "hit" THEN vec[Other(x)].arr
                                         ELSE IF o = "own" THEN vec[x].arr
                                         ELSE NULL)),
                       LAMBDA m : Result(m, o, name, args, x, arg, mut, fail, hist))} :
            /\ heap' = r.heap
            /\ vec' = r.vec
            /\ last' = r.last
            /\ pushed' = r.pushed
            /\ twin' = r.twin

\* the caller is between two calls
Ready == last.op = "-"
Alive(x) == Ready /\ vec[x].alive
Absent(x) == Ready /\ ~vec[x].alive

\* the inputs: lim bounds the blocks of the run
Fails(lim) == 0 .. (lim + 2)
Lists == UNION {[1 .. n -> Values] : n \in 0 .. MaxLen}

\* ---- the actions: one per public operation ------------------------------
DefaultCtor(x) ==
    /\ Absent(x)
    /\ LET Op(m) == vector_default(m, x)
       IN  Step(Op, "vector()", <<>>, x, "-", {x}, 0, <<>>)

SizeCtor(x, lim) ==
    /\ Absent(x)
    /\ \E n \in 0 .. lim, fail \in Fails(lim) :
        LET Op(m) == vector_size(m, x, n)
        IN  Step(Op, "vector(n)", <<n>>, x, "-", {x}, fail, NoHist)

FillCtor(x, lim) ==
    /\ Absent(x)
    /\ \E n \in 0 .. lim, v \in Values, fail \in Fails(lim) :
        LET Op(m) == vector_fill(m, x, n, v)
        IN  Step(Op, "vector(n,value)", <<n, v>>, x, "-", {x}, fail, NoHist)

ListCtor(x, lim) ==
    /\ Absent(x)
    /\ \E seq \in Lists, fail \in Fails(lim) :
        LET Op(m) == vector_list(m, x, seq)
        IN  Step(Op, "vector(list)", seq, x, "-", {x}, fail, NoHist)

RangeCtor(x, lim) ==
    /\ Absent(x)
    /\ \E seq \in Lists, fail \in Fails(lim) :
        LET Op(m) == vector_range(m, x, seq)
        IN  Step(Op, "vector(first,last)", seq, x, "-", {x}, fail, NoHist)

CopyCtor(x, lim) ==
    /\ Absent(x)
    /\ Alive(Other(x))
    /\ \E fail \in Fails(lim) :
        LET Op(m) == vector_copy(m, x, Other(x))
        IN  Step(Op, "vector(const&)", <<>>, x, Other(x), {x}, fail, NoHist)

MoveCtor(x) ==
    /\ Absent(x)
    /\ Alive(Other(x))
    /\ \E wild \in BOOLEAN :
        LET Op(m) == vector_move(m, x, Other(x), wild)
        IN  Step(Op, "vector(&&)", <<>>, x, Other(x), Vecs, 0, NoHist)

Dtor(x) ==
    /\ Alive(x)
    /\ LET Op(m) == destructor(m, x)
       IN  Step(Op, "~vector", <<>>, x, "-", {x}, 0, NoHist)

PushBack(x, lim) ==
    /\ Alive(x)
    /\ vec[x].sz < vec[x].cap \/ GrowCap(vec[x].cap) <= lim
    /\ \E v \in Values, fail \in Fails(lim) :
        LET Op(m) == push_back(m, x, v)
        IN  Step(Op, "push_back", <<v>>, x, "-", {x}, fail,
                 IF pushed[x] = NoHist THEN NoHist ELSE Append(pushed[x], v))

PopBack(x) ==
    /\ Alive(x)
    /\ LET Op(m) == pop_back(m, x)
       IN  Step(Op, "pop_back", <<>>, x, "-", {x}, 0, NoHist)

Clear(x) ==
    /\ Alive(x)
    /\ LET Op(m) == clear(m, x)
       IN  Step(Op, "clear", <<>>, x, "-", {x}, 0, NoHist)

Reserve(x, lim) ==
    /\ Alive(x)
    /\ \E newcap \in 0 .. lim, fail \in Fails(lim) :
        LET Op(m) == reserve(m, x, newcap)
        IN  Step(Op, "reserve", <<newcap>>, x, "-", {x}, fail, NoHist)

ShrinkToFit(x, lim) ==
    /\ Alive(x)
    /\ \E fail \in Fails(lim) :
        LET Op(m) == shrink_to_fit(m, x)
        IN  Step(Op, "shrink_to_fit", <<>>, x, "-", {x}, fail, NoHist)

Insert(x, lim) ==
    /\ Alive(x)
    /\ vec[x].sz < vec[x].cap \/ GrowCap(vec[x].cap) <= lim
    /\ \E k \in (0 - 1) .. (vec[x].sz + 1), v \in Values, fail \in Fails(lim) :
        LET Op(m) == insert(m, x, k, v)
        IN  Step(Op, "insert", <<k, v>>, x, "-", {x}, fail, NoHist)

\* the capacity a call that adds count elements to x ends with stays within lim
Fits(x, count, lim) ==
    \/ vec[x].sz + count <= vec[x].cap
    \/ Max(vec[x].cap * 2, vec[x].sz + count) <= lim

InsertCount(x, lim) ==
    /\ Alive(x)
    /\ \E k \in (0 - 1) .. (vec[x].sz + 1), count \in 0 .. MaxLen, v \in Values,
          fail \in Fails(lim) :
        /\ Fits(x, count, lim)
        /\ LET Op(m) == insert_count(m, x, k, count, v)
           IN  Step(Op, "insert(pos,count,value)", <<k, count, v>>, x, "-", {x}, fail, NoHist)

InsertList(x, lim) ==
    /\ Alive(x)
    /\ \E k \in (0 - 1) .. (vec[x].sz + 1), seq \in Lists, fail \in Fails(lim) :
        /\ Fits(x, Len(seq), lim)
        /\ LET Op(m) == insert_list(m, x, k, seq)
           IN  Step(Op, "insert(pos,ilist)", <<k, seq>>, x, "-", {x}, fail, NoHist)

InsertRange(x, lim) ==
    /\ Alive(x)
    /\ \E k \in (0 - 1) .. (vec[x].sz + 1), seq \in Lists, fail \in Fails(lim) :
        /\ Fits(x, Len(seq), lim)
        /\ LET Op(m) == insert_dispatch(m, x, k, seq)
           IN  Step(Op, "insert(pos,first,last)", <<k, seq>>, x, "-", {x}, fail, NoHist)

InsertSelf(x, lim) ==
    /\ Alive(x)
    /\ \E k \in (0 - 1) .. (vec[x].sz + 1), a \in 0 .. vec[x].sz, b \in 0 .. vec[x].sz,
          fail \in Fails(lim) :
        /\ a <= b
        /\ Fits(x, b - a, lim)
        /\ LET Op(m) == insert_dispatch_self(m, x, k, a, b)
           IN  Step(Op, "insert(pos,own first,own last)", <<k, a, b>>, x, "-", {x}, fail, NoHist)

Erase(x, lim) ==
    /\ Alive(x)
    /\ \E k \in (0 - 1) .. (vec[x].sz + 1), fail \in Fails(lim) :
        LET Op(m) == erase(m, x, k)
        IN  Step(Op, "erase", <<k>>, x, "-", {x}, fail, NoHist)

EraseRange(x, lim) ==
    /\ Alive(x)
    /\ \E f \in 0 .. (vec[x].sz + 1), l \in 0 .. (vec[x].sz + 1), fail \in Fails(lim) :
        LET Op(m) == erase_range(m, x, f, l)
        IN  Step(Op, "erase(first,last)", <<f, l>>, x, "-", {x}, fail, NoHist)

Resize(x, lim) ==
    /\ Alive(x)
    /\ \E count \in 0 .. lim, fail \in Fails(lim) :
        LET Op(m) == resize(m, x, count)
        IN  Step(Op, "resize", <<count>>, x, "-", {x}, fail, NoHist)

ResizeValue(x, lim) ==
    /\ Alive(x)
    /\ \E count \in 0 .. lim, v \in Values, fail \in Fails(lim) :
        LET Op(m) == resize_value(m, x, count, v)
        IN  Step(Op, "resize(n,value)", <<count, v>>, x, "-", {x}, fail, NoHist)

Assign(x, lim) ==
    /\ Alive(x)
    /\ \E count \in 0 .. lim, v \in Values, fail \in Fails(lim) :
        LET Op(m) == assign(m, x, count, v)
        IN  Step(Op, "assign", <<count, v>>, x, "-", {x}, fail, NoHist)

\* x = x
SelfCopyAssign(x) ==
    /\ Alive(x)
    /\ LET Op(m) == copy_assign(m, x, x)
       IN  Step(Op, "operator=(const&)", <<>>, x, x, {x}, 0, NoHist)

\* x = std::move(x)
SelfMoveAssign(x) ==
    /\ Alive(x)
    /\ LET Op(m) == move_assign(m, x, x)
       IN  Step(Op, "operator=(&&)", <<>>, x, x, {x}, 0, NoHist)

CopyAssign(x, lim) ==
    /\ Alive(x)
    /\ Alive(Other(x))
    /\ \E fail \in Fails(lim) :
        LET Op(m) == copy_assign(m, x, Other(x))
        IN  Step(Op, "operator=(const&)", <<>>, x, Other(x), {x}, fail, NoHist)

MoveAssign(x) ==
    /\ Alive(x)
    /\ Alive(Other(x))
    /\ LET Op(m) == move_assign(m, x, Other(x))
       IN  Step(Op, "operator=(&&)", <<>>, x, Other(x), Vecs, 0, NoHist)

Swap(x) ==
    /\ Alive(x)
    /\ Alive(Other(x))
    /\ LET Op(m) == swap(m, x, Other(x))
       IN  Step(Op, "swap", <<>>, x, Other(x), Vecs, 0, NoHist)

\* the call returns to its caller, who is free to make the next one
\* ---- the calls that only read ------------------------------------------
\* x.at(i); size_type is unsigned, so i >= 0
At(x) ==
    /\ Alive(x)
    /\ \E i \in 0 .. (vec[x].sz + 1) :
        last' = [Idle EXCEPT !.op = "at", !.at = <<i>>, !.who = x,
                             !.res = at(heap, vec[x], i).res,
                             !.val = at(heap, vec[x], i).val]
    /\ UNCHANGED <<heap, vec, pushed, twin>>

\* x.empty()
Empty(x) ==
    /\ Alive(x)
    /\ last' = [Idle EXCEPT !.op = "empty", !.who = x,
                            !.res = IF empty(vec[x]) THEN "true" ELSE "false"]
    /\ UNCHANGED <<heap, vec, pushed, twin>>

Observe(x) ==
    \/ At(x)
    \/ Empty(x)

Return ==
    /\ ~Ready
    /\ Running
    /\ last' = Idle
    /\ UNCHANGED <<heap, vec, pushed, twin>>

Init ==
    /\ heap = [c \in Blocks |-> FreeBlock]
    /\ vec = [v \in Vecs |->
                IF v = "A" THEN [alive |-> TRUE, arr |-> NULL, sz |-> 0, cap |-> 0]
                ELSE NoVec]
    /\ last = [op |-> "vector()", at |-> <<>>, who |-> "A", arg |-> "-", mut |-> {"A"},
               res |-> "ok", ret |-> NoIndex, val |-> Raw, ev |-> {}, k |-> 0,
               first |-> NoIndex]
    /\ pushed = [v \in Vecs |-> IF v = "A" THEN <<>> ELSE NoHist]
    /\ twin = FALSE

\* the operations on one vector
Single(x, lim) ==
    \/ DefaultCtor(x)
    \/ SizeCtor(x, lim)
    \/ FillCtor(x, lim)
    \/ ListCtor(x, lim)
    \/ RangeCtor(x, lim)
    \/ Dtor(x)
    \/ PushBack(x, lim)
    \/ PopBack(x)
    \/ Clear(x)
    \/ Reserve(x, lim)
    \/ ShrinkToFit(x, lim)
    \/ Insert(x, lim)
    \/ InsertCount(x, lim)
    \/ InsertList(x, lim)
    \/ InsertRange(x, lim)
    \/ InsertSelf(x, lim)
    \/ Erase(x, lim)
    \/ EraseRange(x, lim)
    \/ Resize(x, lim)
    \/ ResizeValue(x, lim)
    \/ Assign(x, lim)
    \/ SelfCopyAssign(x)
    \/ SelfMoveAssign(x)

\* the operations that take a second vector
Pair(x, lim) ==
    \/ CopyCtor(x, lim)
    \/ MoveCtor(x)
    \/ CopyAssign(x, lim)
    \/ MoveAssign(x)
    \/ Swap(x)

\* a program with the one vector A
Next ==
    \/ Return
    \/ Single("A", MaxCap)
    \/ Observe("A")

Spec == Init /\ [][Next]_vars

\* a program with the two vectors A and B
NextPair ==
    \/ Return
    \/ \E x \in Vecs : Single(x, MaxPairCap) \/ Pair(x, MaxPairCap)

SpecPair == Init /\ [][NextPair]_vars

\* ---- what a caller observes ---------------------------------------------
\* the elements of a vector with members s, as operator[] reads them
Elems(h, s) ==
    [i \in 1 .. s.sz |->
        IF s.arr # NULL /\ h[s.arr].st = "live" /\ i <= Len(h[s.arr].slots)
        THEN h[s.arr].slots[i]
        ELSE Junk]

\* size(), capacity() and the elements of x are after the step what they were
\* before it
SameAsBefore(x) ==
    /\ vec'[x].sz = vec[x].sz
    /\ vec'[x].cap = vec[x].cap
    /\ Elems(heap', vec'[x]) = Elems(heap, vec[x])

Threw == {"bad_alloc", "ctor"}

\* the members and the elements of the vector a call is made on, before it
Before == vec[last'.who]
After == vec'[last'.who]
ElemsBefore == Elems(heap, vec[last'.who])
ElemsAfter == Elems(heap', vec'[last'.who])

\* seq without its elements at the offsets [i, j)
Removed(seq, i, j) ==
    [t \in 1 .. (Len(seq) - (j - i)) |-> IF t <= i THEN seq[t] ELSE seq[t + (j - i)]]

\* seq with the elements of ins put in before offset k
Inserted(seq, k, ins) ==
    [t \in 1 .. (Len(seq) + Len(ins)) |->
        IF t <= k THEN seq[t]
        ELSE IF t <= k + Len(ins) THEN ins[t - k]
        ELSE seq[t - Len(ins)]]

\* ---- the comparison operators --------------------------------------------
\* lhs, rhs: what [begin(), end()) of the two vectors ranges over
RECURSIVE equal(_, _, _)
\* std::equal(lhs.begin(), lhs.end(), rhs.begin()), from offset i on
equal(lhs, rhs, i) ==
    IF i > Len(lhs) THEN TRUE
    ELSE IF lhs[i] # rhs[i] THEN FALSE
    ELSE equal(lhs, rhs, i + 1)

RECURSIVE lexicographical_compare(_, _, _)
\* std::lexicographical_compare(lhs.begin(), lhs.end(), rhs.begin(), rhs.end()),
\* from offset i on
lexicographical_compare(lhs, rhs, i) ==
    IF i > Len(lhs) \/ i > Len(rhs) THEN i > Len(lhs) /\ i <= Len(rhs)
    ELSE IF lhs[i] < rhs[i] THEN TRUE
    ELSE IF rhs[i] < lhs[i] THEN FALSE
    ELSE lexicographical_compare(lhs, rhs, i + 1)

operator_eq(lhs, rhs) == Len(lhs) = Len(rhs) /\ equal(lhs, rhs, 1)

operator_ne(lhs, rhs) == ~operator_eq(lhs, rhs)

\* A less-than that compares the elements whatever the sizes.
LessByElements(lhs, rhs) == lexicographical_compare(lhs, rhs, 1)

operator_lt(lhs, rhs) ==
    IF Len(lhs) # Len(rhs) THEN Len(lhs) < Len(rhs)
    ELSE lexicographical_compare(lhs, rhs, 1)

operator_gt(lhs, rhs) == operator_lt(rhs, lhs)

operator_le(lhs, rhs) == ~operator_lt(rhs, lhs)

operator_ge(lhs, rhs) == ~operator_lt(lhs, rhs)

Comparisons ==
    {"operator==", "operator!=", "operator<", "operator>", "operator<=", "operator>="}

\* the operator called name, applied
Compared(name, lhs, rhs) ==
    IF name = "operator==" THEN operator_eq(lhs, rhs)
    ELSE IF name = "operator!=" THEN operator_ne(lhs, rhs)
    ELSE IF name = "operator<" THEN operator_lt(lhs, rhs)
    ELSE IF name = "operator>" THEN operator_gt(lhs, rhs)
    ELSE IF name = "operator<=" THEN operator_le(lhs, rhs)
    ELSE operator_ge(lhs, rhs)

\* x op Other(x): the vectors are left alone, the result is res
Compare(x) ==
    /\ Alive(x)
    /\ Alive(Other(x))
    /\ \E name \in Comparisons :
        last' = [Idle EXCEPT
                    !.op = name, !.who = x, !.arg = Other(x),
                    !.res = IF Compared(name, Elems(heap, vec[x]),
                                        Elems(heap, vec[Other(x)]))
                            THEN "true" ELSE "false"]
    /\ UNCHANGED <<heap, vec, pushed, twin>>

\* vector a{...}, b{...}
TwoLists(la, lb) == vector_list(vector_list(Fresh, "A", la), "B", lb)

CmpLists == UNION {[1 .. n -> Values] : n \in 0 .. MaxCmpLen}

\* a program that builds two vectors from two lists and compares them
InitCompare ==
    \E la \in CmpLists, lb \in CmpLists :
        /\ heap = NormalHeap(TwoLists(la, lb))
        /\ vec = NormalVec(TwoLists(la, lb))
        /\ last = Idle
        /\ pushed = [v \in Vecs |-> NoHist]
        /\ twin = FALSE

NextCompare ==
    \/ Return
    \/ \E x \in Vecs : Compare(x)

SpecCompare == InitCompare /\ [][NextCompare]_vars

\* ---- the properties -----------------------------------------------------
\* C1: a vector that was default-constructed and on which nothing but
\* push_backs, all successful, have been called since has as its size the
\* number of values pushed, and element i is the i-th value pushed, across
\* every reallocation.
C1_PushBackKeepsOrder ==
    \A x \in Vecs :
        (vec[x].alive /\ pushed[x] # NoHist) =>
            /\ vec[x].sz = Len(pushed[x])
            /\ Elems(heap, vec[x]) = pushed[x]

\* three values pushed, the third after the reallocation from 2 slots to 4
C1_Witness ==
    /\ last.op = "push_back"
    /\ last.res = "ok"
    /\ pushed["A"] = <<0, 1, 1>>
    /\ vec["A"].cap = 4

\* C2, as the specification states it: in every reachable state
\* 0 <= size() <= capacity().
C2_SizeWithinCapacity ==
    \A x \in Vecs :
        vec[x].alive => (0 <= vec[x].sz /\ vec[x].sz <= vec[x].cap)

\* C3, as the specification states it: after every operation that returns
\* normally, the slots [0, size) of the block hold live elements, the slots
\* [size, capacity) are raw, and the operation has neither destroyed a raw
\* slot nor constructed into a live one.  (Stated of the calls that stay
\* within their block.)
C3_LiveExactlyBelowSize ==
    (last.op # "-" /\ last.res = "ok" /\ "ub" \notin last.ev) =>
        /\ last.ev \cap {"destroy_raw", "construct_live"} = {}
        /\ \A x \in Vecs : vec[x].alive => Sound(heap, vec[x])

\* C4: a push_back leaves capacity() >= size(); it leaves the capacity as it
\* was when size < capacity before the call or when the call fails, and
\* otherwise makes it 2 * capacity, or 1 when the capacity was 0.
C4_EndInsertionDoubles ==
    [][last'.op = "push_back" =>
        /\ vec'[last'.who].cap >= vec'[last'.who].sz
        /\ vec'[last'.who].cap =
              IF last'.res = "ok" /\ vec[last'.who].sz = vec[last'.who].cap
              THEN (IF vec[last'.who].cap = 0 THEN 1 ELSE 2 * vec[last'.who].cap)
              ELSE vec[last'.who].cap]_vars

\* the push_back that has taken the capacity from 2 to 4
C4_Witness ==
    /\ last.op = "push_back"
    /\ last.res = "ok"
    /\ vec["A"].sz = 3
    /\ vec["A"].cap = 4

\* C5, as the specification states it: no call other than shrink_to_fit
\* lowers the capacity.  (Stated of the calls that stay within their block.)
C5_CapacityNeverShrinks ==
    [][(/\ last'.op \in {"reserve", "push_back", "insert", "erase", "erase(first,last)",
                         "pop_back", "clear", "resize", "resize(n,value)", "assign",
                         "operator=(const&)"}
        /\ "ub" \notin last'.ev) =>
        vec'[last'.who].cap >= vec[last'.who].cap]_vars

\* C6: a reserve that throws, from the allocation or from the construction of
\* any element in the new block, leaves the members and the block of the
\* vector as they were, has destroyed what it had constructed in the new block
\* and has released that block.  (A call that has written past the end of its
\* new block, newcap < size(), is beyond what the language defines.)
C6_ReserveStrongGuarantee ==
    [][(last'.op = "reserve" /\ last'.res \in Threw /\ "ub" \notin last'.ev) =>
        /\ vec' = vec
        /\ heap' = heap
        /\ last'.ev \cap {"leak_elem", "leak_block", "destroy_raw"} = {}]_vars

\* the construction of the second of three elements has failed
C6_Witness ==
    /\ last.op = "reserve"
    /\ last.res = "ctor"
    /\ last.k = 3
    /\ last.ev = {}
    /\ vec["A"].sz = 3

\* C7: a push_back that throws leaves size(), capacity() and the elements as
\* they were; a push_back that has to grow constructs the new element, at
\* index size() of the new block, before it transfers any element.
C7_PushBackStrongGuarantee ==
    [][last'.op = "push_back" =>
        /\ last'.res \in Threw => SameAsBefore(last'.who)
        /\ (vec[last'.who].sz = vec[last'.who].cap /\ last'.first # NoIndex) =>
              last'.first = vec[last'.who].sz]_vars

\* growing from 2 slots, the transfer of the first element has failed
C7_Witness ==
    /\ last.op = "push_back"
    /\ last.res = "ctor"
    /\ last.k = 3
    /\ last.first = 2
    /\ vec["A"].sz = 2
    /\ vec["A"].cap = 2

\* C8, as the specification states it: an insert(pos, value) that throws
\* leaves size(), capacity() and the elements as they were.
C8_InsertStrongGuarantee ==
    [][(last'.op = "insert" /\ last'.res \in Threw) => SameAsBefore(last'.who)]_vars

\* C9, as the specification states it: after a move, by construction or by
\* assignment, the source is as a default-constructed vector is: size 0,
\* capacity 0, no block.
C9_MovedFromIsFresh ==
    (last.op \in {"vector(&&)", "operator=(&&)"} /\ last.arg # last.who /\ last.res = "ok") =>
        vec[last.arg] = [alive |-> TRUE, arr |-> NULL, sz |-> 0, cap |-> 0]

\* C10: a copy, by construction or by assignment, owns a block of its own;
\* and once one vector is a copy of the other, a call on one of them leaves
\* size(), capacity() and the elements of the other as they were.  (A call
\* that has accessed memory outside its block is beyond what the language
\* defines.)
C10_CopyIndependence ==
    [][/\ (last'.op \in Copies /\ last'.arg = Other(last'.who) /\ last'.res = "ok") =>
             vec'["A"].arr # vec'["B"].arr
       /\ (twin /\ last'.op # "-" /\ last'.mut = {last'.who} /\ "ub" \notin last'.ev) =>
             SameAsBefore(Other(last'.who))]_vars

\* B is a copy of A = {v}, and A has been pushed onto since
C10_Witness ==
    /\ twin
    /\ last.op = "push_back"
    /\ last.who = "A"
    /\ last.res = "ok"
    /\ vec["A"].sz = 2
    /\ vec["B"].sz = 1

\* C11: a successful copy construction or copy assignment from another
\* vector gives the destination the size, the capacity and the elements of
\* the source, and leaves the source as it was; a copy assignment of a vector
\* to itself changes nothing.
C11_CopyTakesCapacity ==
    [][(last'.op \in Copies /\ last'.res = "ok") =>
        IF last'.arg = last'.who
        THEN vec' = vec /\ heap' = heap
        ELSE /\ vec'[last'.who].sz = vec[last'.arg].sz
             /\ vec'[last'.who].cap = vec[last'.arg].cap
             /\ Elems(heap', vec'[last'.who]) = Elems(heap, vec[last'.arg])
             /\ SameAsBefore(last'.arg)]_vars

\* B has been constructed as a copy of a vector of one element and two slots
C11_Witness ==
    /\ last.op = "vector(const&)"
    /\ last.who = "B"
    /\ last.res = "ok"
    /\ vec["B"].sz = 1
    /\ vec["B"].cap = 2
    /\ vec["A"].cap = 2

\* C12, as the specification states it: erase of the range [i, j), for any
\* 0 <= i <= j <= size, takes j - i off the size, leaves the capacity as it
\* was, and leaves the elements outside [i, j) in their order.
C12_EraseContiguity ==
    [][(/\ last'.op = "erase(first,last)"
        /\ last'.res = "ok"
        /\ 0 <= last'.at[1]
        /\ last'.at[1] <= last'.at[2]
        /\ last'.at[2] <= Before.sz) =>
        /\ After.sz = Before.sz - (last'.at[2] - last'.at[1])
        /\ After.cap = Before.cap
        /\ ElemsAfter = Removed(ElemsBefore, last'.at[1], last'.at[2])]_vars

\* {1, 2, 3}; insert 99 before the second element; erase the first element;
\* push_back(4)
Scenario13a == insert(vector_list(Fresh, "A", <<1, 2, 3>>), "A", 1, 99)
Scenario13b == erase(Scenario13a, "A", 0)
Scenario13c == push_back(Scenario13b, "A", 4)

\* C13: a successful insert(pos, value) with pos at offset k in [0, size]
\* adds one to the size, puts value between the old elements [0, k) and
\* [k, size), and returns the position at offset k; and {1, 2, 3} becomes
\* {1, 99, 2, 3}, then {99, 2, 3}, then {99, 2, 3, 4} with capacity >= 4.
C13_InsertPlacesValue ==
    [][/\ (/\ last'.op = "insert"
           /\ last'.res = "ok"
           /\ 0 <= last'.at[1]
           /\ last'.at[1] <= Before.sz) =>
             /\ After.sz = Before.sz + 1
             /\ ElemsAfter = Inserted(ElemsBefore, last'.at[1], <<last'.at[2]>>)
             /\ last'.ret = last'.at[1]
       /\ Elems(Scenario13a.heap, Scenario13a.vec["A"]) = <<1, 99, 2, 3>>
       /\ Scenario13a.ret = 1
       /\ Elems(Scenario13b.heap, Scenario13b.vec["A"]) = <<99, 2, 3>>
       /\ Elems(Scenario13c.heap, Scenario13c.vec["A"]) = <<99, 2, 3, 4>>
       /\ Scenario13c.vec["A"].sz = 4
       /\ Scenario13c.vec["A"].cap >= 4
       /\ Scenario13c.ev = {}
       /\ ~Thrown(Scenario13c)]_vars

\* 1 has been inserted before the second element of {0, 0}
C13_Witness ==
    /\ last.op = "insert"
    /\ last.res = "ok"
    /\ last.at = <<1, 1>>
    /\ last.ret = 1
    /\ Elems(heap, vec["A"]) = <<0, 1, 0>>

\* ---- C14 ----------------------------------------------------------------
\* the forms of insert
Inserts ==
    {"insert", "insert(pos,count,value)", "insert(pos,ilist)",
     "insert(pos,first,last)", "insert(pos,own first,own last)"}

\* C14: every form of insert (single value, count copies, iterator range,
\* initializer list) called with pos outside [begin(), end()] signals
\* out_of_range and leaves size, capacity and the elements unchanged, whatever
\* the other arguments, a count of 0 and an empty range included.
C14_InsertRejectsBadPosition ==
    [][(last'.op \in Inserts /\ OutOfRange(Before, last'.at[1])) =>
        /\ last'.res = "out_of_range"
        /\ SameAsBefore(last'.who)]_vars

\* ---- C15 ----------------------------------------------------------------
\* C15: erase(first, last) with a position outside [begin(), end()], or with
\* first > last (both inside the container), signals out_of_range and leaves
\* size, capacity and the elements unchanged; with first == last inside the
\* container it returns and changes nothing.  (Stated for the calls that stay
\* clear of undefined behaviour.)
C15_EraseRangeValidates ==
    [][(last'.op = "erase(first,last)" /\ "ub" \notin last'.ev) =>
        IF \/ last'.at[1] < 0 \/ last'.at[1] > Before.sz
           \/ last'.at[2] < 0 \/ last'.at[2] > Before.sz
           \/ last'.at[1] > last'.at[2]
        THEN last'.res = "out_of_range" /\ SameAsBefore(last'.who)
        ELSE last'.at[1] = last'.at[2] =>
                last'.res = "ok" /\ SameAsBefore(last'.who)]_vars

\* ---- C16 ----------------------------------------------------------------
\* C16: reserve(newcap) with newcap <= capacity() leaves size, capacity and
\* the elements unchanged; a reserve(newcap) with newcap > capacity() that
\* returns leaves capacity() = newcap and size and the elements unchanged.
\* (Stated for the calls that stay clear of undefined behaviour.)
C16_ReserveOnlyGrows ==
    [][(last'.op = "reserve" /\ "ub" \notin last'.ev) =>
        IF last'.at[1] <= Before.cap
        THEN SameAsBefore(last'.who)
        ELSE last'.res = "ok" =>
                /\ After.cap = last'.at[1]
                /\ After.sz = Before.sz
                /\ ElemsAfter = ElemsBefore]_vars

\* ---- C17 ----------------------------------------------------------------
\* C17: for offsets 0 <= a < b <= size() and 0 <= k <= size(), a returning
\* insert(begin() + k, begin() + a, begin() + b) leaves the sequence of before
\* the call with a copy of its elements [a, b) put in before offset k, whether
\* or not the call reallocates and wherever k lies with respect to [a, b).
C17_SelfRangeInsert ==
    [][(/\ last'.op = "insert(pos,own first,own last)"
        /\ last'.res = "ok"
        /\ 0 <= last'.at[1] /\ last'.at[1] <= Before.sz
        /\ last'.at[2] < last'.at[3]) =>
        /\ After.sz = Before.sz + (last'.at[3] - last'.at[2])
        /\ ElemsAfter = Inserted(ElemsBefore, last'.at[1],
                                 SubSeq(ElemsBefore, last'.at[2] + 1, last'.at[3]))
        /\ last'.ret = last'.at[1]
        /\ last'.ev = {}]_vars

\* the whole of {0, 1} inserted into its own middle, with a reallocation
C17_Witness ==
    /\ last.op = "insert(pos,own first,own last)"
    /\ last.res = "ok"
    /\ last.at = <<1, 0, 2>>
    /\ vec["A"].cap = 4
    /\ Elems(heap, vec["A"]) = <<0, 0, 1, 1>>

\* ---- C18 ----------------------------------------------------------------
\* the forms of insert that put in several elements
ManyInserts == Inserts \ {"insert"}

\* C18: when an allocation or an element construction fails during an insert
\* of count copies, of a range or of an initializer list at a position in
\* [begin(), end()], the call that propagates the error leaves the vector valid:
\* size() <= capacity(), every slot in [0, size) holds a live element, every
\* slot in [size, capacity) is raw, and no slot was destroyed twice.
C18_ManyInsertBasicGuarantee ==
    [][(/\ last'.op \in ManyInserts
        /\ last'.res \in Threw
        /\ "ub" \notin last'.ev) =>
        /\ Sound(heap', After)
        /\ "destroy_raw" \notin last'.ev]_vars

\* ---- C19 ----------------------------------------------------------------
\* assign(3, 7) on an empty container, then assign(1, 5)
Scenario19a == assign(vector_default(Fresh, "A"), "A", 3, 7)
Scenario19b == assign(Scenario19a, "A", 1, 5)

\* C19: a returning assign(count, value) leaves exactly count copies of value,
\* size() = count; the capacity becomes count if count > capacity() and is
\* unchanged otherwise, assign(0, value) included.  assign(3, 7) on an empty
\* container gives {7, 7, 7}; assign(1, 5) then gives {5} at capacity 3.
C19_AssignCountValue ==
    [][/\ (last'.op = "assign" /\ last'.res = "ok") =>
            /\ After.sz = last'.at[1]
            /\ ElemsAfter = [i \in 1 .. last'.at[1] |-> last'.at[2]]
            /\ After.cap = IF last'.at[1] > Before.cap THEN last'.at[1] ELSE Before.cap
            /\ last'.ev = {}
       /\ Elems(Scenario19a.heap, Scenario19a.vec["A"]) = <<7, 7, 7>>
       /\ Scenario19a.vec["A"].sz = 3
       /\ Elems(Scenario19b.heap, Scenario19b.vec["A"]) = <<5>>
       /\ Scenario19b.vec["A"].sz = 1
       /\ Scenario19b.vec["A"].cap = 3
       /\ Scenario19b.ev = {}
       /\ ~Thrown(Scenario19b)]_vars

\* an assign-down: one element assigned into a block of three slots
C19_Witness ==
    /\ last.op = "assign"
    /\ last.res = "ok"
    /\ last.at = <<1, 1>>
    /\ vec["A"].cap = 3
    /\ Elems(heap, vec["A"]) = <<1>>

\* ---- C20 ----------------------------------------------------------------
\* {9, 9} and {1, 2, 3}
Scenario20 == TwoLists(<<9, 9>>, <<1, 2, 3>>)

\* C20: a == b iff the sizes match and all corresponding elements are equal;
\* a < b iff a is the smaller in size, or the sizes are equal and a comes
\* first elementwise ({9, 9} < {1, 2, 3}); exactly one of a < b, a == b,
\* b < a holds; !=, >, <=, >= are !(a == b), b < a, !(b < a), !(a < b).
C20_SizeFirstOrder ==
    LET same(p, q) == Len(p) = Len(q) /\ \A i \in 1 .. Len(p) : p[i] = q[i]
        first(p, q) == \E i \in 1 .. Len(p) :
                           p[i] < q[i] /\ \A j \in 1 .. (i - 1) : p[j] = q[j]
        less(p, q) == Len(p) < Len(q) \/ (Len(p) = Len(q) /\ first(p, q))
        a == Elems(heap, vec["A"])
        b == Elems(heap, vec["B"])
        l == Elems(heap, vec[last.who])
        r == Elems(heap, vec[last.arg])
        said == last.res = "true"
    IN  /\ (vec["A"].alive /\ vec["B"].alive) =>
               \/ operator_lt(a, b) /\ ~operator_eq(a, b) /\ ~operator_lt(b, a)
               \/ ~operator_lt(a, b) /\ operator_eq(a, b) /\ ~operator_lt(b, a)
               \/ ~operator_lt(a, b) /\ ~operator_eq(a, b) /\ operator_lt(b, a)
        /\ last.op \in Comparisons =>
               /\ last.op = "operator==" => (said <=> same(l, r))
               /\ last.op = "operator!=" => (said <=> ~same(l, r))
               /\ last.op = "operator<" => (said <=> less(l, r))
               /\ last.op = "operator>" => (said <=> less(r, l))
               /\ last.op = "operator<=" => (said <=> ~less(r, l))
               /\ last.op = "operator>=" => (said <=> ~less(l, r))
        /\ operator_lt(Elems(Scenario20.heap, Scenario20.vec["A"]),
                       Elems(Scenario20.heap, Scenario20.vec["B"]))

\* the smaller vector is less although its elements are the larger ones
C20_Witness ==
    /\ last.op = "operator<"
    /\ last.who = "A"
    /\ last.res = "true"
    /\ Elems(heap, vec["A"]) = <<1, 1>>
    /\ Elems(heap, vec["B"]) = <<0, 0, 0>>

\* ---- C21 ----------------------------------------------------------------
\* C21: at(i) returns the element at index i when i < size() and throws
\* out_of_range when i >= size(), and leaves the vector as it was; at(size())
\* fails and at(size() - 1) succeeds on a non-empty vector, also when
\* capacity() > size().
C21_CheckedAccess ==
    [][last'.op = "at" =>
        /\ SameAsBefore(last'.who)
        /\ heap' = heap
        /\ IF last'.at[1] < Before.sz
           THEN last'.res = "ok" /\ last'.val = ElemsBefore[last'.at[1] + 1]
           ELSE last'.res = "out_of_range"]_vars

\* at(size() - 1) on {0, 1} in a block of four slots
C21_Witness ==
    /\ last.op = "at"
    /\ last.at = <<1>>
    /\ last.res = "ok"
    /\ last.val = 1
    /\ vec["A"].sz = 2
    /\ vec["A"].cap = 4
    /\ Elems(heap, vec["A"]) = <<0, 1>>

\* ---- C22 ----------------------------------------------------------------
\* a vector built from the range {1, 2, 3}
Scenario22 == vector_range(Fresh, "A", <<1, 2, 3>>)

\* C22: a vector constructed from a range [a, b) has size and capacity
\* distance(a, b), and a loop from begin() by increments until end() visits
\* exactly the elements of the range, in order (ranges of 0, 1 and more
\* elements); end() - begin() = size() for every vector.
C22_RangeRoundTrip ==
    /\ (last.op = "vector(first,last)" /\ last.res = "ok") =>
           /\ vec[last.who].sz = Len(last.at)
           /\ vec[last.who].cap = Len(last.at)
           /\ Traversal(heap, vec[last.who]) = last.at
    /\ \A x \in Vecs : vec[x].alive => distance(begin(vec[x]), end(vec[x])) = vec[x].sz
    /\ Scenario22.vec["A"].sz = 3
    /\ Scenario22.vec["A"].cap = 3
    /\ Traversal(Scenario22.heap, Scenario22.vec["A"]) = <<1, 2, 3>>

\* a vector built from the range {0, 1}
C22_Witness ==
    /\ last.op = "vector(first,last)"
    /\ last.res = "ok"
    /\ last.at = <<0, 1>>
    /\ Traversal(heap, vec["A"]) = <<0, 1>>

\* ---- C23 ----------------------------------------------------------------
Resizes == {"resize", "resize(n,value)"}

\* C23: a returning resize(n) or resize(n, value) leaves size() = n, the
\* first min(n, old size) elements unchanged, every element at an index in
\* [old size, n) equal to the default value (resp. value), and the capacity
\* unchanged when n <= capacity(); when an allocation or the construction of
\* a new element fails, what was constructed is destroyed again and size()
\* and the elements are those of before the call.
C23_Resize ==
    [][last'.op \in Resizes =>
        /\ last'.res \in {"ok"} \cup Threw
        /\ last'.res = "ok" =>
              /\ After.sz = last'.at[1]
              /\ \A i \in 1 .. last'.at[1] :
                    ElemsAfter[i] = IF i <= Before.sz THEN ElemsBefore[i]
                                    ELSE IF last'.op = "resize" THEN DefaultValue
                                    ELSE last'.at[2]
              /\ last'.at[1] <= Before.cap => After.cap = Before.cap
              /\ Sound(heap', After)
        /\ last'.res \in Threw =>
              /\ After.sz = Before.sz
              /\ ElemsAfter = ElemsBefore
              /\ Sound(heap', After)
        /\ last'.ev = {}]_vars

\* resize(2, 1) on an empty vector with two slots; the second construction
\* fails
C23_Witness ==
    /\ last.op = "resize(n,value)"
    /\ last.at = <<2, 1>>
    /\ last.res = "ctor"
    /\ last.k = 2
    /\ vec["A"].sz = 0
    /\ vec["A"].cap = 2

\* ---- C24 ----------------------------------------------------------------
\* C24: pop_back on a vector with size() > 0 destroys the last element and
\* no other, takes one off the size and leaves the capacity and the other
\* elements as they were; pop_back on a vector with size() = 0 throws nothing
\* and changes nothing.
C24_PopBack ==
    [][last'.op = "pop_back" =>
        /\ last'.res = "ok"
        /\ last'.ev = {}
        /\ IF Before.sz > 0
           THEN /\ After.sz = Before.sz - 1
                /\ After.cap = Before.cap
                /\ ElemsAfter = SubSeq(ElemsBefore, 1, Before.sz - 1)
                /\ Sound(heap', After)
           ELSE vec' = vec /\ heap' = heap]_vars

\* pop_back on {0, 1}
C24_Witness ==
    /\ last.op = "pop_back"
    /\ last.res = "ok"
    /\ vec["A"].sz = 1
    /\ vec["A"].cap = 2
    /\ heap[vec["A"].arr].slots = <<0, Raw>>

\* ---- C25 ----------------------------------------------------------------
\* C25: empty() returns true exactly when size() = 0.  (Stated for the
\* vectors that hold a block of at least one slot.)
C25_EmptyIffNoElements ==
    (last.op = "empty" /\ vec[last.who].cap > 0) =>
        (last.res = "true" <=> vec[last.who].sz = 0)

\* ---- C26 ----------------------------------------------------------------
\* C26: in every state every vector, a moved-from one included, has a null
\* block pointer only when its capacity() is 0.  (Stated for the runs that
\* stay clear of undefined behaviour.)
C26_NullBlockNoCapacity ==
    "ub" \notin last.ev =>
        \A x \in Vecs : (vec[x].alive /\ vec[x].arr = NULL) => vec[x].cap = 0

\* ---- C27 ----------------------------------------------------------------
\* C27: in every state of a program with two vectors, under any sequence of
\* copy and move construction, copy and move assignment, swap and mutating
\* calls, the two vectors do not hold the same non-null block and no vector
\* holds a block that was released.  (Stated for the runs that stay clear of
\* undefined behaviour.)
C27_ExclusiveOwnership ==
    "ub" \notin last.ev =>
        /\ (vec["A"].alive /\ vec["B"].alive /\ vec["A"].arr # NULL) =>
               vec["A"].arr # vec["B"].arr
        /\ \A x \in Vecs :
               (vec[x].alive /\ vec[x].arr # NULL) => heap[vec[x].arr].st = "live"

\* B took over the block of A by move assignment
C27_Witness ==
    /\ last.op = "operator=(&&)"
    /\ last.who = "B"
    /\ last.arg = "A"
    /\ vec["A"].arr = NULL
    /\ vec["B"].arr # NULL
    /\ Elems(heap, vec["B"]) = <<0, 1>>

\* ---- C28 ----------------------------------------------------------------
\* an element or a block that is never released, an element destroyed twice
Imbalance == {"leak_elem", "leak_block", "destroy_raw"}

\* C28: no call, whether it returns or fails at an injected allocation or
\* construction failure, deallocates a block that still holds a live element,
\* loses a block, or destroys a slot that holds no element.  (Stated for the
\* calls that stay clear of undefined behaviour.)
C28_ResourceBalance ==
    "ub" \notin last.ev => last.ev \cap Imbalance = {}

\* ---- C29 ----------------------------------------------------------------
\* a move assignment from the other vector has returned
MovedFromOther ==
    /\ last'.op = "operator=(&&)"
    /\ last'.arg # last'.who
    /\ last'.res = "ok"

\* the destination holds the former block, size, capacity and elements of
\* the source, whose block pointer is cleared
TookOver ==
    /\ vec'[last'.who].sz = vec[last'.arg].sz
    /\ vec'[last'.who].cap = vec[last'.arg].cap
    /\ (vec'[last'.who].arr = NULL) <=> (vec[last'.arg].arr = NULL)
    /\ vec[last'.arg].arr # NULL =>
           heap'[vec'[last'.who].arr] = heap[vec[last'.arg].arr]
    /\ Elems(heap', vec'[last'.who]) = Elems(heap, vec[last'.arg])
    /\ vec'[last'.arg].arr = NULL

\* C29 as stated: after B = move(A), A distinct from B, B holds A's former
\* block, size, capacity and elements, A's block pointer is cleared, and A's
\* capacity and size keep their values of before the call.
C29_AsStated ==
    [][MovedFromOther =>
        /\ TookOver
        /\ vec'[last'.arg].cap = vec[last'.arg].cap
        /\ vec'[last'.arg].sz = vec[last'.arg].sz]_vars

\* C29, amended: after B = move(A), A distinct from B, B holds A's former
\* block, size, capacity and elements, A's block pointer is cleared, A's
\* size is 0, and A's capacity keeps its value of before the call.
C29_MoveAssignment ==
    [][MovedFromOther =>
        /\ TookOver
        /\ vec'[last'.arg].cap = vec[last'.arg].cap
        /\ vec'[last'.arg].sz = 0]_vars

\* B = move(A) with A = {0, 1}
C29_Witness ==
    /\ last.op = "operator=(&&)"
    /\ last.who = "B"
    /\ last.arg = "A"
    /\ last.res = "ok"
    /\ vec["A"] = [alive |-> TRUE, arr |-> NULL, sz |-> 0, cap |-> 2]
    /\ vec["B"].cap = 2
    /\ Elems(heap, vec["B"]) = <<0, 1>>

\* ---- C30 ----------------------------------------------------------------
\* C30: a returning erase(first, last) with offsets i < j <= size() returns
\* the position at offset i of the resulting vector, the position of the
\* first element that followed the erased range; a returning erase(pos) with
\* pos at an element returns the position at the offset of pos.  (Stated for
\* the calls that stay clear of undefined behaviour.)
C30_EraseReturnsPosition ==
    [][("ub" \notin last'.ev /\ last'.res = "ok") =>
        /\ (/\ last'.op = "erase(first,last)"
            /\ 0 <= last'.at[1]
            /\ last'.at[1] < last'.at[2]
            /\ last'.at[2] <= Before.sz) => last'.ret = last'.at[1]
        /\ (/\ last'.op = "erase"
            /\ 0 <= last'.at[1]
            /\ last'.at[1] < Before.sz) => last'.ret = last'.at[1]]_vars

====
